---- MODULE Spec2Model ----
(***************************************************************************)
(* OTP gateway: the HTTP handlers of main/handlers.go (handleSetOTP,       *)
(* handleCheckOTP, handleIndex, checkOTP) run by concurrent workers over   *)
(* one shared record store.  The store itself (otpgateway.Store: Check,    *)
(* Set, Close) is not part of main/; it is modelled from its specified     *)
(* contract: three atomic operations over TTL-bound records.               *)
(***************************************************************************)
EXTENDS Integers, Sequences, FiniteSets, TLC

\* ---------------------------------------------------------------- bounds
\* The incrementing reads stop once a record's attempts reach this value.
AttemptsCap == 5
\* Last instant of the store's expiry clock.
MaxTime == 2

\* ------------------------------------------------------ program constants
\* app.otpMaxAttempts of the test application.
otpMaxAttempts == 3
\* app.otpTTL of the test application, in ticks of the expiry clock.
otpTTL == 2
\* dummyProv.MaxOTPLen().
MaxOTPLen == 6
\* Length of a generated id.
GenIDLen == 32
\* Minimum length of a caller-supplied id.
MinIDLen == 6

alphaChars ==
    << "A","B","C","D","E","F","G","H","I","J","K","L","M",
       "N","O","P","Q","R","S","T","U","V","W","X","Y","Z",
       "a","b","c","d","e","f","g","h","i","j","k","l","m",
       "n","o","p","q","r","s","t","u","v","w","x","y","z" >>
numChars == << "0","1","2","3","4","5","6","7","8","9" >>
alphaNumChars == alphaChars \o numChars

actCheck == "check"
actResend == "resend"

dummyNamespace == "myapp"
dummyProvider == "dummyprovider"
dummyOTPID == "myotp123"
dummyToAddress == "dummy@to.com"
dummyOTP == "123456"

\* ------------------------------------------------------------ the inputs
Workers == {"w1", "w2"}
IdInputs == {dummyOTPID, "abc", ""}
CheckOTPInputs == {"", "123", dummyOTP, "333333"}
Keys == {<<dummyNamespace, id>> : id \in IdInputs}

\* The requests put to handleSetOTP.
SetRequests ==
    { [provider |-> "badprovider", to |-> dummyToAddress, id |-> dummyOTPID,
       otp |-> "", description |-> ""],
      [provider |-> dummyProvider, to |-> "xxxx", id |-> dummyOTPID,
       otp |-> "", description |-> ""],
      [provider |-> dummyProvider, to |-> dummyToAddress, id |-> "abc",
       otp |-> dummyOTP, description |-> ""],
      [provider |-> dummyProvider, to |-> dummyToAddress, id |-> "",
       otp |-> "", description |-> ""],
      [provider |-> dummyProvider, to |-> dummyToAddress, id |-> dummyOTPID,
       otp |-> "", description |-> ""],
      [provider |-> dummyProvider, to |-> dummyToAddress, id |-> dummyOTPID,
       otp |-> dummyOTP, description |-> "login"] }

\* The requests put to handleCheckOTP.
CheckRequests ==
    [id : {dummyOTPID}, otp : CheckOTPInputs] \cup [id : {"abc"}, otp : {dummyOTP}]

\* The requests put to handleIndex.
IndexRequests ==
    [id : {dummyOTPID}, action : {"", actResend}, otp : {""}]
    \cup [id : {dummyOTPID}, action : {actCheck}, otp : {"", dummyOTP}]

\* The outcome of rand.Read drawn here: n bytes.
randRead(n) == { [i \in 1..n |-> 3] }

\* ------------------------------------------------------------ generator
RECURSIVE concat(_)
concat(s) == IF s = << >> THEN "" ELSE Head(s) \o concat(Tail(s))

\* bytes[k] = chars[v % byte(len(chars))]; string(bytes).
generateRandomString(bytes, chars) ==
    concat([k \in 1..Len(bytes) |-> chars[(bytes[k] % (Len(chars) % 256)) + 1]])

\* --------------------------------------------------------------- errors
nil == "nil"
ErrNotExist == "the OTP does not exist"
ErrStore == "store unavailable"
ErrAlreadyLocked == "OTP is locked"

\* ----------------------------------------------------- the record store
NoRec == [absent |-> TRUE]

\* The zero value of otpgateway.OTP, returned beside an error.
ZeroOTP ==
    [ns |-> "", id |-> "", otp |-> "", to |-> "", description |-> "",
     provider |-> "", attempts |-> 0, max_attempts |-> 0, closed |-> FALSE,
     ttl |-> 0]

\* What a read of the stored record r under key k returns at time t.
Snapshot(k, r, t) ==
    [ns |-> k[1], id |-> k[2], otp |-> r.otp, to |-> r.to,
     description |-> r.description, provider |-> r.provider,
     attempts |-> r.attempts, max_attempts |-> r.max_attempts,
     closed |-> r.closed, ttl |-> r.expires - t]

\* Lockout policy over a stored record or a snapshot.
IsLocked(r) == r.attempts > r.max_attempts

\* Read as it would be if an incrementing read started the TTL afresh.
CheckExtends(s, k, counter, t, up) ==
    IF ~up THEN [err |-> ErrStore, out |-> ZeroOTP, store |-> s]
    ELSE IF s[k] = NoRec THEN [err |-> ErrNotExist, out |-> ZeroOTP, store |-> s]
    ELSE LET r == IF counter
                  THEN [s[k] EXCEPT !.attempts = @ + 1, !.expires = t + otpTTL]
                  ELSE s[k]
         IN [err |-> nil, out |-> Snapshot(k, r, t), store |-> [s EXCEPT ![k] = r]]

\* Read(namespace, id, increment): [err, out, store].
Check(s, k, counter, t, up) ==
    IF ~up THEN [err |-> ErrStore, out |-> ZeroOTP, store |-> s]
    ELSE IF s[k] = NoRec THEN [err |-> ErrNotExist, out |-> ZeroOTP, store |-> s]
    ELSE LET r == IF counter
                  THEN [s[k] EXCEPT !.attempts = @ + 1]
                  ELSE s[k]
         IN [err |-> nil, out |-> Snapshot(k, r, t), store |-> [s EXCEPT ![k] = r]]

\* Set as it would be without the lock test: a locked record is overwritten.
SetNoLock(s, k, o, t, up) ==
    IF ~up THEN [err |-> ErrStore, out |-> ZeroOTP, store |-> s]
    ELSE LET r == [otp |-> o.otp, to |-> o.to, description |-> o.description,
                   provider |-> o.provider, attempts |-> 1,
                   max_attempts |-> o.max_attempts, closed |-> FALSE,
                   expires |-> t + o.ttl]
         IN [err |-> nil, out |-> Snapshot(k, r, t), store |-> [s EXCEPT ![k] = r]]

\* Create(namespace, id, record, ttl): [err, out, store].
Set(s, k, o, t, up) ==
    IF ~up THEN [err |-> ErrStore, out |-> ZeroOTP, store |-> s]
    ELSE IF s[k] # NoRec /\ IsLocked(s[k])
    THEN [err |-> ErrAlreadyLocked, out |-> ZeroOTP, store |-> s]
    ELSE LET r == [otp |-> o.otp, to |-> o.to, description |-> o.description,
                   provider |-> o.provider, attempts |-> 1,
                   max_attempts |-> o.max_attempts, closed |-> FALSE,
                   expires |-> t + o.ttl]
         IN [err |-> nil, out |-> Snapshot(k, r, t), store |-> [s EXCEPT ![k] = r]]

\* Close as it would be if it toggled the flag instead of setting it.
CloseFlip(s, k, t, up) ==
    IF ~up THEN [err |-> ErrStore, out |-> ZeroOTP, store |-> s]
    ELSE IF s[k] = NoRec THEN [err |-> ErrNotExist, out |-> ZeroOTP, store |-> s]
    ELSE LET r == [s[k] EXCEPT !.closed = ~@]
         IN [err |-> nil, out |-> Snapshot(k, r, t), store |-> [s EXCEPT ![k] = r]]

\* Close(namespace, id): [err, out, store].
Close(s, k, t, up) ==
    IF ~up THEN [err |-> ErrStore, out |-> ZeroOTP, store |-> s]
    ELSE IF s[k] = NoRec THEN [err |-> ErrNotExist, out |-> ZeroOTP, store |-> s]
    ELSE LET r == [s[k] EXCEPT !.closed = TRUE]
         IN [err |-> nil, out |-> Snapshot(k, r, t), store |-> [s EXCEPT ![k] = r]]

\* ------------------------------------------------ the delivery channel
\* app.providers of the test application.
providers == {dummyProvider}
\* dummyProv.ValidateAddress.
ValidateAddress(to) == to = dummyToAddress

\* -------------------------------------------------------------- state
VARIABLES
    store,      \* key -> stored record, or NoRec
    now,        \* the store's expiry clock
    pc,         \* worker -> where its handler stands
    req,        \* worker -> the handler's request values
    out,        \* worker -> the handler's local OTP (out)
    observed,   \* key -> the attempts each Verify and Resend read of the live record, in order
    last,       \* what the last step did: the store key, the push, the response
    issued,     \* key -> the instant of the store.Set that wrote the live record
    spent,      \* key -> the comparisons and resend pushes made on the live record
    gen         \* the sweep of generateRandomString over the byte values

vars == <<store, now, pc, req, out, observed, last, issued, spent, gen>>

NoReq == [h |-> "none"]
NoResp == [status |-> "none"]
NoMsg == [none |-> TRUE]
NoGen == [chars |-> << >>, next |-> 0, n |-> 0, str |-> "", hist |-> << >>]
\* In issued: the record under the key has expired and none was written since.
Lapsed == -1
NoStep == [act |-> "init", by |-> "none", key |-> <<dummyNamespace, dummyOTPID>>,
           pre |-> NoRec, input |-> NoReq, push |-> NoMsg, resp |-> NoResp,
           ops |-> 0]

\* The handlers' side of the initial state: an empty store, idle workers.
InitHandlers ==
    /\ store = [k \in Keys |-> NoRec]
    /\ now = 0
    /\ pc = [p \in Workers |-> "idle"]
    /\ req = [p \in Workers |-> NoReq]
    /\ out = [p \in Workers |-> ZeroOTP]
    /\ observed = [k \in Keys |-> << >>]
    /\ last = NoStep
    /\ issued = [k \in Keys |-> 0]
    /\ spent = [k \in Keys |-> 0]

Init == InitHandlers /\ gen = NoGen

\* ------------------------------------------------------- handler pieces
\* isLocked as it would be if it allowed one attempt more.
isLockedOffByOne(otp) == otp.attempts > otp.max_attempts + 1

\* isLocked tells if an OTP is locked after exceeding attempts.
isLocked(otp) == otp.attempts > otp.max_attempts

\* The validation of handleSetOTP: the error message, or nil.
SetValidation(provider, to, id) ==
    IF provider \notin providers THEN "unknown provider"
    ELSE IF ~ValidateAddress(to) THEN "invalid to address"
    ELSE IF Len(id) < MinIDLen THEN "ID should be min 6 chars"
    ELSE nil

\* The ids handleSetOTP may go on with once the validation passed.
SetID(id) ==
    IF id = ""
    THEN {generateRandomString(b, alphaNumChars) : b \in randRead(GenIDLen)}
    ELSE {id}

\* The passcodes handleSetOTP may store: the incoming one, or a generated one.
SetOTPVal(otpVal) ==
    IF otpVal = ""
    THEN {generateRandomString(b, numChars) : b \in randRead(MaxOTPLen)}
    ELSE {otpVal}

\* handleCheckOTP's validation as it would be without the empty-passcode test.
CheckValidationNoEmpty(id, otpVal) ==
    IF Len(id) < MinIDLen THEN "ID should be min 6 chars" ELSE nil

\* The validation of handleCheckOTP: the error message, or nil.
CheckValidation(id, otpVal) ==
    IF Len(id) < MinIDLen THEN "ID should be min 6 chars"
    ELSE IF otpVal = "" THEN "otp is empty"
    ELSE nil

\* checkOTP's verdict as it would be without the comparison.
checkOTPErrorNoCompare(c, otp) ==
    IF c.err # nil THEN c.err
    ELSE IF isLocked(c.out) THEN "Too many attempts"
    ELSE nil

\* checkOTP's verdict as it would be without the lock test.
checkOTPErrorNoLock(c, otp) ==
    IF c.err # nil THEN c.err
    ELSE IF c.out.otp # otp THEN "OTP does not match"
    ELSE nil

\* The error checkOTP returns after its read c = [err, out]; nil sends it on to Close.
checkOTPError(c, otp) ==
    IF c.err # nil THEN c.err
    ELSE IF isLocked(c.out) THEN "Too many attempts"
    ELSE IF c.out.otp # otp THEN "OTP does not match"
    ELSE nil

\* handleIndex reading for the view as it does for a resend.
IndexCounterAlways(action) == TRUE

\* handleIndex reading for a resend as it does for the view.
IndexCounterNever(action) == FALSE

\* Whether handleIndex reads with counter = true for this action.
IndexCounter(action) == action = actResend

\* handleIndex's branching as it would be without the closed test.
IndexPageNoClosed(o, otpErr) ==
    IF otpErr = ErrNotExist THEN "Session expired"
    ELSE IF isLocked(o) THEN "Too many attempts"
    ELSE IF o.provider \notin providers THEN "Internal error"
    ELSE "otp"

\* The page handleIndex renders for (out, otpErr), or "otp" when it goes on
\* to the resend and the OTP form.
IndexPage(o, otpErr) ==
    IF otpErr = ErrNotExist THEN "Session expired"
    ELSE IF isLocked(o) THEN "Too many attempts"
    ELSE IF o.provider \notin providers THEN "Internal error"
    ELSE IF o.closed THEN "verified"
    ELSE "otp"

\* The message push hands to the provider.
PushMsg(o) == [to |-> o.to, otp |-> o.otp, ns |-> o.ns, id |-> o.id]

\* The response of a handler: sendResponse, sendErrorResponse, or the page.
Resp(h, status, data) == [h |-> h, status |-> status, data |-> data]

\* The handler of worker p returns: its locals die.
Finish(p) ==
    /\ pc' = [pc EXCEPT ![p] = "idle"]
    /\ req' = [req EXCEPT ![p] = NoReq]
    /\ out' = [out EXCEPT ![p] = ZeroOTP]

\* The record of a step: ops is the number of store operations it made.
Step(act, p, k, input, push, r, ops) ==
    last' = [act |-> act, by |-> p, key |-> k, pre |-> store[k],
             input |-> input, push |-> push, resp |-> r, ops |-> ops]

\* A Verify or a Resend (attempt) that read a live record logs the attempts it read.
Observe(k, c, attempt) ==
    observed' = IF attempt /\ c.err = nil
                THEN [observed EXCEPT ![k] = Append(@, c.out.attempts)]
                ELSE observed

\* A passcode comparison or a resend push (used) on the record under k is counted.
Spend(k, used) ==
    spent' = IF used THEN [spent EXCEPT ![k] = @ + 1] ELSE spent

\* The incrementing reads are cut off at AttemptsCap.
BelowCap(k) == IF store[k] = NoRec THEN TRUE ELSE store[k].attempts < AttemptsCap

\* ------------------------------------------------------- handleSetOTP
\* The response of handleSetOTP after its lock check c, or NoResp when it goes on to Set.
SetLockResp(c) ==
    IF c.err # nil /\ c.err # ErrNotExist
    THEN Resp("handleSetOTP", "error checking OTP status", NoMsg)
    ELSE IF c.err # ErrNotExist /\ isLocked(c.out)
    THEN Resp("handleSetOTP", "OTP attempts exceeded",
              [ttl |-> c.out.ttl, attempts |-> c.out.attempts,
               max_attempts |-> otpMaxAttempts])
    ELSE NoResp

\* From the request to the lock check: validation, generation, store.Check.
handleSetOTP(p) ==
    /\ pc[p] = "idle"
    /\ UNCHANGED <<now, issued, spent, gen>>
    /\ \E r \in SetRequests :
        LET v == SetValidation(r.provider, r.to, r.id) IN
        IF v # nil
        THEN /\ Step("handleSetOTP", p, <<dummyNamespace, r.id>>, r, NoMsg,
                     Resp("handleSetOTP", v, NoMsg), 0)
             /\ Finish(p)
             /\ UNCHANGED <<store, observed>>
        ELSE \E id \in SetID(r.id), otpVal \in SetOTPVal(r.otp), up \in BOOLEAN :
            LET k == <<dummyNamespace, id>>
                c == Check(store, k, FALSE, now, up)
                lr == SetLockResp(c)
            IN
            /\ Step("handleSetOTP", p, k, r, NoMsg, lr, 1)
            /\ store' = c.store
            /\ Observe(k, c, FALSE)
            /\ IF lr # NoResp
               THEN Finish(p)
               ELSE /\ pc' = [pc EXCEPT ![p] = "set"]
                    /\ req' = [req EXCEPT ![p] =
                                  [h |-> "handleSetOTP", id |-> id, otp |-> otpVal,
                                   to |-> r.to, description |-> r.description,
                                   provider |-> r.provider]]
                    /\ UNCHANGED out

\* The argument of store.Set as it would be with the description left out.
SetArgNoDescription(r) ==
    [otp |-> r.otp, to |-> r.to, description |-> "",
     provider |-> r.provider, ttl |-> otpTTL, max_attempts |-> otpMaxAttempts]

\* The OTP handleSetOTP hands to store.Set.
SetArg(r) ==
    [otp |-> r.otp, to |-> r.to, description |-> r.description,
     provider |-> r.provider, ttl |-> otpTTL, max_attempts |-> otpMaxAttempts]

\* The rest of handleSetOTP as it would be if a failed push took the record back.
handleSetOTPSetRollback(p) ==
    /\ pc[p] = "set"
    /\ UNCHANGED <<now, gen>>
    /\ \E up \in BOOLEAN, sent \in BOOLEAN :
        LET r == req[p]
            k == <<dummyNamespace, r.id>>
            s == Set(store, k, SetArg(r), now, up)
        IN
        /\ store' = IF s.err = nil /\ ~sent
                    THEN [s.store EXCEPT ![k] = NoRec] ELSE s.store
        /\ observed' = IF s.err = nil THEN [observed EXCEPT ![k] = << >>] ELSE observed
        /\ issued' = IF s.err = nil THEN [issued EXCEPT ![k] = IF sent THEN now ELSE 0]
                     ELSE issued
        /\ spent' = IF s.err = nil THEN [spent EXCEPT ![k] = 0] ELSE spent
        /\ Finish(p)
        /\ IF s.err # nil
           THEN /\ sent
                /\ Step("handleSetOTPSet", p, k, r, NoMsg,
                        Resp("handleSetOTP", "error setting OTP", NoMsg), 1)
           ELSE IF ~sent
           THEN Step("handleSetOTPSet", p, k, r, NoMsg,
                     Resp("handleSetOTP", "error sending OTP", NoMsg), 1)
           ELSE Step("handleSetOTPSet", p, k, r, PushMsg(s.out),
                     Resp("handleSetOTP", "success", s.out), 1)

\* The rest of handleSetOTP: store.Set, push, the response.
handleSetOTPSet(p) ==
    /\ pc[p] = "set"
    /\ UNCHANGED <<now, gen>>
    /\ \E up \in BOOLEAN, sent \in BOOLEAN :
        LET r == req[p]
            k == <<dummyNamespace, r.id>>
            s == Set(store, k, SetArg(r), now, up)
        IN
        /\ store' = s.store
        /\ observed' = IF s.err = nil THEN [observed EXCEPT ![k] = << >>] ELSE observed
        /\ issued' = IF s.err = nil THEN [issued EXCEPT ![k] = now] ELSE issued
        /\ spent' = IF s.err = nil THEN [spent EXCEPT ![k] = 0] ELSE spent
        /\ Finish(p)
        /\ IF s.err # nil
           THEN /\ sent
                /\ Step("handleSetOTPSet", p, k, r, NoMsg,
                        Resp("handleSetOTP", "error setting OTP", NoMsg), 1)
           ELSE IF ~sent
           THEN Step("handleSetOTPSet", p, k, r, NoMsg,
                     Resp("handleSetOTP", "error sending OTP", NoMsg), 1)
           ELSE Step("handleSetOTPSet", p, k, r, PushMsg(s.out),
                     Resp("handleSetOTP", "success", s.out), 1)

\* ------------------------------------------------------------ checkOTP
\* checkOTP up to its return or its Close: the read, the lock test, the comparison.
\* h is the calling handler, r its request, e the error checkOTP returns.
checkOTP(p, h, r, up) ==
    LET k == <<dummyNamespace, r.id>>
        c == Check(store, k, TRUE, now, up)
        e == checkOTPError(c, r.otp)
    IN
    /\ BelowCap(k)
    /\ store' = c.store
    /\ Observe(k, c, TRUE)
    /\ Spend(k, c.err = nil /\ e \in {nil, "OTP does not match"})
    /\ IF e = nil
       THEN /\ pc' = [pc EXCEPT ![p] = "close"]
            /\ req' = [req EXCEPT ![p] = [h |-> h, id |-> r.id, otp |-> r.otp]]
            /\ out' = [out EXCEPT ![p] = c.out]
            /\ Step(h, p, k, r, NoMsg, NoResp, 1)
       ELSE /\ Finish(p)
            /\ Step(h, p, k, r, NoMsg,
                    IF h = "handleCheckOTP"
                    THEN Resp(h, e, c.out)
                    ELSE Resp(h, IndexPage(c.out, e),
                              IF IndexPage(c.out, e) = "otp" THEN e ELSE NoMsg), 1)

\* The end of checkOTP and of its caller: store.Close, out.Closed = true, the response.
checkOTPClose(p) ==
    /\ pc[p] = "close"
    /\ UNCHANGED <<now, observed, issued, spent, gen>>
    /\ \E up \in BOOLEAN :
        LET r == req[p]
            k == <<dummyNamespace, r.id>>
            c == Close(store, k, now, up)
            o == [out[p] EXCEPT !.closed = TRUE]
        IN
        /\ store' = c.store
        /\ Finish(p)
        /\ Step("checkOTPClose", p, k, r, NoMsg,
                IF r.h = "handleCheckOTP"
                THEN Resp(r.h, "success", TRUE)
                ELSE Resp(r.h, IndexPage(o, nil), NoMsg), 1)

\* ------------------------------------------------------ handleCheckOTP
handleCheckOTP(p) ==
    /\ pc[p] = "idle"
    /\ UNCHANGED <<now, issued, gen>>
    /\ \E r \in CheckRequests :
        LET v == CheckValidation(r.id, r.otp) IN
        IF v # nil
        THEN /\ Step("handleCheckOTP", p, <<dummyNamespace, r.id>>, r, NoMsg,
                     Resp("handleCheckOTP", v, NoMsg), 0)
             /\ Finish(p)
             /\ UNCHANGED <<store, observed, spent>>
        ELSE \E up \in BOOLEAN : checkOTP(p, "handleCheckOTP", r, up)

\* --------------------------------------------------------- handleIndex
\* handleIndex without a passcode submitted: the view, or the resend.
handleIndexRead(p, r, up, sent) ==
    LET k == <<dummyNamespace, r.id>>
        c == Check(store, k, IndexCounter(r.action), now, up)
        page == IndexPage(c.out, c.err)
        pushes == page = "otp" /\ r.action = actResend
    IN
    /\ IndexCounter(r.action) => BelowCap(k)
    /\ store' = c.store
    /\ Observe(k, c, r.action = actResend)
    /\ Spend(k, pushes)
    /\ Finish(p)
    /\ ~pushes => sent
    /\ Step("handleIndex", p, k, r,
            IF pushes /\ sent THEN PushMsg(c.out) ELSE NoMsg,
            Resp("handleIndex", page,
                 IF page # "otp" THEN NoMsg
                 ELSE IF pushes /\ ~sent THEN "error resending the OTP"
                 ELSE IF c.err # nil THEN c.err
                 ELSE IF pushes THEN "OTP resent"
                 ELSE ""), 1)

handleIndex(p) ==
    /\ pc[p] = "idle"
    /\ UNCHANGED <<now, issued, gen>>
    /\ \E r \in IndexRequests, up \in BOOLEAN :
        IF r.action \in {"", actResend}
        THEN \E sent \in BOOLEAN : handleIndexRead(p, r, up, sent)
        ELSE checkOTP(p, "handleIndex", r, up)

\* ------------------------------------------------------------ the clock
\* Time passes; the store drops the records whose TTL has elapsed.
Tick ==
    /\ now < MaxTime
    /\ now' = now + 1
    /\ store' = [k \in Keys |->
                   IF store[k] # NoRec /\ store[k].expires <= now + 1
                   THEN NoRec ELSE store[k]]
    /\ observed' = [k \in Keys |-> IF store'[k] = NoRec THEN << >> ELSE observed[k]]
    /\ issued' = [k \in Keys |->
                    IF store'[k] # NoRec THEN issued[k]
                    ELSE IF store[k] # NoRec THEN Lapsed
                    ELSE issued[k]]
    /\ spent' = [k \in Keys |-> IF store'[k] = NoRec THEN 0 ELSE spent[k]]
    /\ last' = [NoStep EXCEPT !.act = "Tick"]
    /\ UNCHANGED <<pc, req, out, gen>>

Next ==
    \/ \E p \in Workers : handleSetOTP(p)
    \/ \E p \in Workers : handleSetOTPSet(p)
    \/ \E p \in Workers : handleCheckOTP(p)
    \/ \E p \in Workers : handleIndex(p)
    \/ \E p \in Workers : checkOTPClose(p)
    \/ Tick

Spec == Init /\ [][Next]_vars

\* ------------------------------------------- generateRandomString alone
\* The values of a byte.
ByteValues == 256
\* The lengths asked of generateRandomString in the sweep.
GenLens == {0, 1, 2}
\* The alphabets handleSetOTP passes.
Alphabets == {numChars, alphaNumChars}
Symbols(chars) == {chars[i] : i \in 1..Len(chars)}

GenInit ==
    /\ InitHandlers
    /\ gen \in {[chars |-> a, next |-> 0, n |-> 0, str |-> "",
                 hist |-> [c \in Symbols(a) |-> 0]] : a \in Alphabets}

\* One call for each byte value b in turn: n bytes starting at b are drawn,
\* the string is generated, and the symbol byte b maps to is tallied.
GenStep ==
    /\ gen.next < ByteValues
    /\ \E n \in GenLens :
        LET b == gen.next
            bytes == [i \in 1..n |-> (b + i - 1) % ByteValues]
            sym == generateRandomString(<<b>>, gen.chars)
        IN gen' = [gen EXCEPT !.next = b + 1, !.n = n,
                              !.str = generateRandomString(bytes, gen.chars),
                              !.hist[sym] = @ + 1]
    /\ UNCHANGED <<store, now, pc, req, out, observed, last, issued, spent>>

GenSpec == GenInit /\ [][GenStep]_vars

\* ============================================================ properties
\* The vocabulary of the properties: they read the record of the last step.
TheKey == <<dummyNamespace, dummyOTPID>>
Post == store[last.key]
StepOn == last.act \notin {"init", "Tick"}
LockedRec(r) == r.attempts > r.max_attempts
\* The last step was checkOTP's incrementing read (a Verify).
VerifyRead ==
    /\ last.act \in {"handleCheckOTP", "handleIndex"}
    /\ last.ops = 1
    /\ last.act = "handleIndex" => last.input.action = actCheck
\* The last step was handleIndex with action=resend (a Resend).
ResendRead == last.act = "handleIndex" /\ last.input.action = actResend
\* The store failed the read of the last step.
ReadFailed == last.resp.status \in {ErrStore, "Internal error"}
ValidationErrors ==
    {"unknown provider", "invalid to address", "ID should be min 6 chars", "otp is empty"}
NoDuplicates(q) == \A i, j \in 1..Len(q) : i # j => q[i] # q[j]

\* C1: every Verify and every Resend that reads a live record raises the stored
\* attempts by exactly 1; after N of them on one record the stored attempts is
\* 1 + N, and the N values they read are pairwise distinct.
C1_NoLostIncrements ==
    /\ \A k \in Keys :
         store[k] # NoRec =>
           /\ store[k].attempts = 1 + Len(observed[k])
           /\ NoDuplicates(observed[k])
    /\ ((VerifyRead \/ ResendRead) /\ last.pre # NoRec /\ ~ReadFailed) =>
         /\ Post # NoRec
         /\ Post.attempts = last.pre.attempts + 1
         /\ observed[last.key][Len(observed[last.key])] = Post.attempts

\* Two Verifies are in flight on one record, and a Resend or Verify came before.
C1_Witness ==
    /\ \A p \in Workers : pc[p] = "close"
    /\ store[TheKey] # NoRec
    /\ Len(observed[TheKey]) >= 2
    /\ out["w1"].attempts # out["w2"].attempts

\* C2: a stored record becomes closed only by the Close of a Verify whose
\* supplied passcode equals the passcode of that stored record.
C2_ClosedOnlyByMatchingVerify ==
    (StepOn /\ Post # NoRec /\ Post.closed
       /\ (IF last.pre = NoRec THEN TRUE ELSE ~last.pre.closed)) =>
      /\ last.act = "checkOTPClose"
      /\ last.input.otp = Post.otp

\* C3: a Verify that reads a locked record fails, leaves it locked and does not
\* close it, whatever passcode it supplies; and a locked record stays locked
\* under every handler step (only the expiry clock removes it).
C3_LockedNeverVerifies ==
    /\ (VerifyRead /\ last.pre # NoRec /\ LockedRec(last.pre)) =>
         /\ pc[last.by] = "idle"
         /\ last.resp.status \notin {"success", "verified", "otp"}
         /\ Post # NoRec
         /\ Post.closed = last.pre.closed
    /\ (StepOn /\ last.pre # NoRec /\ LockedRec(last.pre)) =>
         (Post # NoRec /\ LockedRec(Post))

\* A Verify with the right passcode has just read a locked, open record.
C3_Witness ==
    /\ VerifyRead
    /\ last.pre # NoRec
    /\ LockedRec(last.pre)
    /\ ~last.pre.closed
    /\ last.input.otp = last.pre.otp
    /\ ~ReadFailed

\* C4: the store.Set of an Issue that finds the record locked (it was locked
\* after that Issue's store.Check) leaves the record as it was, attempts
\* included; the Issue reports an error and pushes nothing.
C4_LockedNotOverwritten ==
    (last.act = "handleSetOTPSet" /\ last.pre # NoRec /\ LockedRec(last.pre)) =>
      /\ Post = last.pre
      /\ last.resp.status = "error setting OTP"
      /\ last.push = NoMsg

\* An Issue passed its lock check, the record was locked, and then its Set ran.
C4_Witness ==
    /\ last.act = "handleSetOTPSet"
    /\ last.pre # NoRec
    /\ LockedRec(last.pre)
    /\ last.input.otp # last.pre.otp

\* C5: a successful Issue leaves the stored record with attempts = 1,
\* closed = false and the passcode, recipient, description and channel of the
\* request, and nothing of the record it replaced.
C5_IssueResets ==
    (last.act = "handleSetOTPSet" /\ last.resp.status = "success") =>
      /\ Post = [otp |-> last.input.otp, to |-> last.input.to,
                 description |-> last.input.description,
                 provider |-> last.input.provider, attempts |-> 1,
                 max_attempts |-> otpMaxAttempts, closed |-> FALSE,
                 expires |-> now + otpTTL]
      /\ last.resp.data.attempts = 1
      /\ last.resp.data.otp = last.input.otp

\* A successful Issue has replaced a closed record with other values and attempts above 1.
C5_Witness ==
    /\ last.act = "handleSetOTPSet"
    /\ last.resp.status = "success"
    /\ last.pre # NoRec
    /\ last.pre.attempts > 1
    /\ last.pre.closed
    /\ last.pre.otp # Post.otp
    /\ last.pre.description # Post.description

\* C6: handleSetOTP rejects an unknown channel, a recipient the channel
\* rejects and an id under 6 characters, handleCheckOTP an id under 6
\* characters and an empty passcode, each with a validation error; a request
\* so rejected makes no store operation and no push, and the record under
\* its key is what it was.
C6_ValidationTouchesNothing ==
    /\ last.resp.status \in ValidationErrors =>
         /\ last.ops = 0
         /\ last.push = NoMsg
         /\ Post = last.pre
         /\ pc[last.by] = "idle"
    /\ (last.act = "handleSetOTP"
          /\ (\/ last.input.provider \notin providers
              \/ last.input.to # dummyToAddress
              \/ Len(last.input.id) < MinIDLen)) =>
         last.resp.status \in ValidationErrors
    /\ (last.act = "handleCheckOTP"
          /\ (Len(last.input.id) < MinIDLen \/ last.input.otp = "")) =>
         last.resp.status \in ValidationErrors

\* A Verify with an empty passcode was rejected while a record with attempts above 1 is stored.
C6_Witness ==
    /\ last.act = "handleCheckOTP"
    /\ last.resp.status = "otp is empty"
    /\ last.key = TheKey
    /\ Post # NoRec
    /\ Post.attempts > 1

\* C7: a Verify or Resend that reads a closed record leaves its attempts
\* unchanged and does not go on to a fresh successful verification.
C7_ClosedAcceptsNoAttempts ==
    ((VerifyRead \/ ResendRead) /\ last.pre # NoRec /\ last.pre.closed) =>
      /\ Post # NoRec
      /\ Post.attempts = last.pre.attempts
      /\ pc[last.by] # "close"

\* C8 as stated: no handler step on a key whose record is closed leaves that
\* key without a closed record.
C8_ClosedNeverUnset ==
    (StepOn /\ last.pre # NoRec /\ last.pre.closed) =>
      (Post # NoRec /\ Post.closed)

\* C8 as amended: Verify, Resend and View never unset closed; a closed record
\* is replaced by an open one only by the store.Set of an Issue, which
\* requires it to be unlocked and writes a fresh record with attempts = 1.
C8_ClosedUnsetOnlyByIssue ==
    (StepOn /\ last.pre # NoRec /\ last.pre.closed) =>
      /\ Post # NoRec
      /\ ~Post.closed =>
           /\ last.act = "handleSetOTPSet"
           /\ ~LockedRec(last.pre)
           /\ Post.attempts = 1
           /\ last.resp.status \in {"success", "error sending OTP"}

\* The Close of a second Verify has run on a record that was closed already.
C8_Witness ==
    /\ last.act = "checkOTPClose"
    /\ last.pre # NoRec
    /\ last.pre.closed
    /\ Post # NoRec
    /\ Post.closed

\* C9: an Issue with an empty id, a known channel and a valid recipient is not
\* rejected as too short: it goes on under a generated id of 32 characters.
C9_EmptyIdGenerates ==
    (last.act = "handleSetOTP" /\ last.input.id = ""
       /\ last.input.provider \in providers /\ last.input.to = dummyToAddress) =>
      /\ last.resp.status # "ID should be min 6 chars"
      /\ Len(last.key[2]) = GenIDLen

\* C10: a Resend pushes only if its read found a record that is open and,
\* after the increment, within maxAttempts; the message carries that record's
\* passcode and recipient; and a Resend never changes the stored passcode.
C10_ResendPushesOnlyOpenUnlocked ==
    ResendRead =>
      /\ last.push # NoMsg =>
           /\ last.pre # NoRec
           /\ ~last.pre.closed
           /\ last.pre.attempts + 1 <= last.pre.max_attempts
           /\ last.push.otp = last.pre.otp
           /\ last.push.to = last.pre.to
      /\ (Post = NoRec) = (last.pre = NoRec)
      /\ last.pre # NoRec =>
           (Post.otp = last.pre.otp /\ Post.closed = last.pre.closed)

\* A Resend has pushed the passcode of an open record that had been read before.
C10_Witness ==
    /\ ResendRead
    /\ last.push # NoMsg
    /\ last.pre # NoRec
    /\ last.pre.attempts > 1
    /\ last.push.otp = Post.otp

\* The last step was handleIndex with no action (a View).
ViewRead == last.act = "handleIndex" /\ last.input.action = ""
\* The last step read an absent key and the store answered.
NotFoundStatus == {ErrNotExist, "Session expired"}
LockedStatus == {"Too many attempts"}

\* C11: when the push of an Issue fails the request reports an error and the
\* record store.Set wrote stays, with attempts = 1; when the push of a Resend
\* fails the record differs from what it was only by the one increment.
C11_SendFailureKeepsRecord ==
    /\ (last.act = "handleSetOTPSet" /\ last.resp.status = "error sending OTP") =>
         /\ Post # NoRec
         /\ Post.attempts = 1
         /\ Post.otp = last.input.otp
         /\ ~Post.closed
         /\ Post.expires = now + otpTTL
         /\ last.push = NoMsg
    /\ (ResendRead /\ last.resp.status = "otp"
           /\ last.resp.data = "error resending the OTP") =>
         /\ last.pre # NoRec
         /\ Post = [last.pre EXCEPT !.attempts = @ + 1]
         /\ last.push = NoMsg

\* The push of an Issue that replaced a record has failed.
C11_Witness ==
    /\ last.act = "handleSetOTPSet"
    /\ last.resp.status = "error sending OTP"
    /\ last.pre # NoRec
    /\ last.pre.attempts > 1

\* C12: a record written at instant t is gone at every instant from t + TTL
\* on, whatever Verify, Resend, View and Close did to it before; a read of the
\* absent key answers NotFound and leaves it absent.
C12_ExpiryDeadlineFixed ==
    /\ \A k \in Keys :
         store[k] # NoRec =>
           /\ now < issued[k] + otpTTL
           /\ store[k].expires = issued[k] + otpTTL
    /\ \A k \in Keys : issued[k] = Lapsed => store[k] = NoRec
    /\ ((VerifyRead \/ ResendRead \/ ViewRead) /\ issued[last.key] = Lapsed) =>
         /\ last.pre = NoRec
         /\ Post = NoRec
         /\ pc[last.by] = "idle"
         /\ last.push = NoMsg
         /\ ~ReadFailed => last.resp.status \in NotFoundStatus

\* A Verify finds the key absent at t + TTL: its record has expired and no
\* Issue followed.
C12_Witness ==
    /\ VerifyRead
    /\ last.act = "handleCheckOTP"
    /\ issued[last.key] = Lapsed
    /\ last.resp.status = ErrNotExist
    /\ now >= otpTTL

\* C13: a View leaves the record under its key as it was (attempts, closed,
\* passcode, deadline), be it absent, active, locked or closed, and pushes nothing.
C13_ViewChangesNothing ==
    ViewRead =>
      /\ Post = last.pre
      /\ last.push = NoMsg
      /\ pc[last.by] = "idle"

\* A View has read a locked record.
C13_Witness ==
    /\ ViewRead
    /\ last.pre # NoRec
    /\ LockedRec(last.pre)
    /\ last.resp.status = "Too many attempts"

\* The Verify of the scenario: the first attempt on a record issued with the
\* explicit passcode, with a wrong passcode supplied.
FirstWrongVerify ==
    /\ VerifyRead
    /\ last.act = "handleCheckOTP"
    /\ last.pre # NoRec
    /\ last.pre.attempts = 1
    /\ ~last.pre.closed
    /\ last.pre.otp = dummyOTP
    /\ last.input.otp = "123"
    /\ ~ReadFailed

\* C14 as stated: that Verify fails with Mismatch, attempts becomes 3 and the
\* record remains unlocked.
C14_WrongVerifyMakesThree ==
    FirstWrongVerify =>
      /\ last.resp.status = "OTP does not match"
      /\ Post.attempts = 3
      /\ ~LockedRec(Post)

\* C14 as amended: that Verify fails with Mismatch, attempts becomes 2 and the
\* record remains unlocked and open.
C14_WrongVerifyMakesTwo ==
    FirstWrongVerify =>
      /\ last.resp.status = "OTP does not match"
      /\ last.resp.data.attempts = 2
      /\ pc[last.by] = "idle"
      /\ Post = [last.pre EXCEPT !.attempts = 2]
      /\ ~LockedRec(Post)

C14_Witness == FirstWrongVerify /\ last.resp.status = "OTP does not match"

\* C15: on one issued record the Verifies that reach the comparison and the
\* Resends that push are together at most maxAttempts - 1.
C15_BudgetBounds ==
    \A k \in Keys :
      /\ spent[k] <= otpMaxAttempts - 1
      /\ store[k] # NoRec => spent[k] <= store[k].attempts - 1

\* The budget is used up and the record locked while a Verify that matched is in flight.
C15_Witness ==
    /\ spent[TheKey] = otpMaxAttempts - 1
    /\ store[TheKey] # NoRec
    /\ LockedRec(store[TheKey])
    /\ \E p \in Workers : pc[p] = "close"

\* C16: a Verify reports success only if its store.Close succeeded, so that
\* the stored record is closed when the Close returns.
C16_SuccessImpliesClosed ==
    (last.act = "checkOTPClose" /\ last.resp.status \in {"success", "verified"}) =>
      (Post # NoRec /\ Post.closed)

\* The Verify or Resend read a live record whose attempts, incremented, exceed maxAttempts.
LockedRead ==
    /\ VerifyRead \/ ResendRead
    /\ last.pre # NoRec
    /\ last.pre.attempts + 1 > last.pre.max_attempts
    /\ ~ReadFailed

\* C17 as stated: a Verify or Resend that fails with Locked leaves attempts,
\* closed and the deadline as they were before the call.
C17_LockedMutatesNothing ==
    (LockedRead /\ last.resp.status \in LockedStatus) => Post = last.pre

\* C17 as amended: such a Verify or Resend fails with Locked and changes
\* nothing but attempts, which its read raised by 1: closed, the passcode and
\* the deadline are as before, and nothing is pushed.
C17_LockedOnlyIncrements ==
    LockedRead =>
      /\ last.resp.status \in LockedStatus
      /\ pc[last.by] = "idle"
      /\ Post = [last.pre EXCEPT !.attempts = @ + 1]
      /\ last.push = NoMsg

\* A Verify with the right passcode has just pushed an open record over maxAttempts.
C17_Witness ==
    /\ LockedRead
    /\ VerifyRead
    /\ last.pre.attempts = last.pre.max_attempts
    /\ ~last.pre.closed
    /\ last.input.otp = last.pre.otp

\* C18: the body of handleCheckOTP's response to a Verify that fails with
\* Mismatch or Locked carries the ttl, attempts and max-attempts of the record
\* and nothing else of it: no field that varies with the stored passcode.
C18_ErrorBodyHidesPasscode ==
    (last.act = "handleCheckOTP"
       /\ last.resp.status \in {"OTP does not match", "Too many attempts"}) =>
      last.resp.data = [ttl |-> Post.expires - now, attempts |-> Post.attempts,
                        max_attempts |-> Post.max_attempts]

\* C19: generateRandomString returns length symbols of the alphabet, and over
\* the 256 byte values every symbol of the alphabet is drawn equally often.
C19_GenerateUniform ==
    gen.chars # << >> =>
      /\ Len(gen.str) = gen.n
      /\ gen.str \in {concat(q) : q \in [1..gen.n -> Symbols(gen.chars)]}
      /\ gen.next = ByteValues =>
           \A a, b \in Symbols(gen.chars) : gen.hist[a] = gen.hist[b]
====
